---- MODULE Spec2Model ----
(***************************************************************************)
(* BasePostgresSchemaGenerator (tortoise/backends/base_postgres/           *)
(* schema_generator.py): the per-generator accumulators comments_array and *)
(* schema_names, table assembly (_get_table_sql) and the ordering loop and *)
(* script composition of get_create_schema_sql.                            *)
(*                                                                         *)
(* A script is a sequence of statements; a statement is a record naming    *)
(* the template that renders it and the values substituted into it, so two *)
(* scripts are byte-identical exactly when the sequences are equal.        *)
(***************************************************************************)
EXTENDS Integers, Sequences, FiniteSets, TLC

\* ------------------------------------------------------------------ bounds
\* Largest number of entities in a model handed to one generation call.
MaxEntities == 2
\* Largest number of get_create_schema_sql calls made on one generator.
MaxCalls == 2
\* Largest number of reference fields in a model of the reference-graph family.
MaxRefs == 2

\* ------------------------------------------------------------- vocabulary
\* model._meta.schema is None
NoSchema == "None"
\* the named namespaces entities are placed in
SchemaNames == {"public", "sa", "sb"}
\* model._meta.db_table of the i-th declared entity, unless it shares a name
TableName == <<"t1", "t2", "t3", "t4", "t5">>
\* a many-to-many through name that is no declared entity's table
FreeThrough == "event_team"

VARIABLES
  comments_array,             \* self.comments_array (line 49)
  schema_names,               \* self.schema_names (line 50)
  hash_order,                 \* order in which a set of str iterates in this process (line 384)
  public_is_literal,          \* the member "public" of schema_names is the object of the
                              \* literal "public" of line 385
  calls,                      \* number of get_create_schema_sql calls made so far
  pc,                         \* "idle" | "ordering" (lines 393-407) | "done", and
                              \* "column" | "rendered" around lines 150-169
  model,                      \* models_to_create of the current / last call (lines 371-372)
  safe,                       \* the safe argument of the current / last call (line 370)
  create_schemas_sql,         \* locals of get_create_schema_sql (lines 380-392)
  tables_to_create,
  tables_to_create_count,
  created_tables,
  ordered_tables_for_create,
  m2m_tables_to_create,
  result,                     \* "none" | "ok" | "KeyError" (253, 270) | "ConfigurationError" (403)
  script,                     \* the returned script (line 412); <<>> unless result = "ok"
  prev,                       \* outcome of the preceding call when it had the same arguments
  failed,                     \* some call on this generator has raised
  field_object,               \* the field whose column is rendered (line 131)
  default                     \* the local default of lines 150-169

vars == <<comments_array, schema_names, hash_order, public_is_literal, calls, pc, model, safe,
          create_schemas_sql, tables_to_create, tables_to_create_count,
          created_tables, ordered_tables_for_create, m2m_tables_to_create,
          result, script, prev, failed, field_object, default>>

\* --------------------------------------------------------------- helpers
RECURSIVE Flatten(_)
Flatten(ss) == IF ss = <<>> THEN <<>> ELSE Head(ss) \o Flatten(Tail(ss))

RECURSIVE SelectIdx(_, _)
\* the indexes of 1..n that are in S, ascending
SelectIdx(n, S) == IF n = 0 THEN <<>>
                   ELSE IF n \in S THEN Append(SelectIdx(n - 1, S), n)
                        ELSE SelectIdx(n - 1, S)

Range(s) == {s[i] : i \in DOMAIN s}

RemoveAt(s, i) == [k \in 1..(Len(s) - 1) |-> IF k < i THEN s[k] ELSE s[k + 1]]

\* ------------------------------------------------------------- statements
Stmt(template, schema, table, exists, body) ==
  [template |-> template, schema |-> schema, table |-> table,
   exists |-> exists, body |-> body]

\* _get_table_name_sql_string: '"schema"."table"' or '"table"'
TableNameSql(e) == <<e.schema, e.table>>

\* _table_comment_generator: appends unconditionally
TableCommentGenerator(comments, qn) ==
  Append(comments, Stmt("TABLE_COMMENT_TEMPLATE", qn[1], qn[2], FALSE, <<>>))

\* _column_comment_generator: appends unless already collected
ColumnCommentGenerator(comments, qn, column) ==
  LET c == Stmt("COLUMN_COMMENT_TEMPLATE", qn[1], qn[2], FALSE, <<column>>)
  IN  IF c \in Range(comments) THEN comments ELSE Append(comments, c)

\* (mutation of GetIndexSql) the guard written out whatever safe is
GetIndexSqlAlwaysGuarded(e, s) ==
  Stmt("INDEX_CREATE_TEMPLATE", e.schema, e.table, TRUE, <<"name">>)

\* _get_index_sql
GetIndexSql(e, s) == Stmt("INDEX_CREATE_TEMPLATE", e.schema, e.table, s, <<"name">>)

\* _create_fk_string, or "" when reference.db_constraint is false
FkClause(m, kind, j) == IF kind = "fk" THEN TableNameSql(m[j]) ELSE <<>>

\* the column fragments of one entity, in field order: the generated primary
\* key, the plain column, then one column per reference field
FieldsToCreate(m, i) ==
  LET e == m[i]
      targets == SelectIdx(Len(m), {j \in DOMAIN m : e.refs[j] # "none"})
  IN  <<[column |-> "id", to |-> 0, fk |-> <<>>],
        [column |-> "name", to |-> 0, fk |-> <<>>]>>
      \o [k \in DOMAIN targets |->
            [column |-> "ref", to |-> targets[k],
             fk |-> FkClause(m, e.refs[targets[k]], targets[k])]]

\* references.add(reference.related_model._meta.db_table), for every
\* field that has a reference
References(m, i) == {m[j].table : j \in {j \in DOMAIN m : m[i].refs[j] # "none"}}

\* -------------------------------------------------------- column defaults
\* a Python value: its type, its text, and the conversions it went through
Value(type, repr) == [type |-> type, repr |-> repr, db |-> FALSE, encoded |-> FALSE]

None == Value("NoneType", "None")

\* a DEFAULT clause: the keyword and the expression after it; "" is the
\* clause without keyword and with an empty expression
Clause(keyword, expr) == [keyword |-> keyword, expr |-> expr]

EmptyString == Clause("", Value("str", ""))

CURRENT_TIMESTAMP == Value("str", "CURRENT_TIMESTAMP")

\* field_object.to_db_value(default, model), line 157
ToDbValue(value) == [value EXCEPT !.db = TRUE]

\* _escape_default_value: a bool is passed on, any other value goes through
\* the encoder of its type
EscapeDefaultValue(value) ==
  IF value.type = "bool" THEN value ELSE [value EXCEPT !.encoded = TRUE]

\* _column_default_generator
ColumnDefaultGenerator(value, auto_now_add, auto_now) ==
  Clause(" DEFAULT", IF auto_now_add THEN CURRENT_TIMESTAMP ELSE value)

NotInlined == {"UUIDField", "TextField", "JSONField"}

\* the default clause of a column, lines 150-169 of _get_table_sql
ColumnDefault(f) ==
  IF f.default # None \/ f.auto_now \/ f.auto_now_add
  THEN IF f.default.type = "function" \/ f.field_type \in NotInlined
       THEN EmptyString
       ELSE ColumnDefaultGenerator(EscapeDefaultValue(ToDbValue(f.default)),
                                   f.auto_now_add, f.auto_now)
  ELSE EmptyString

\* _post_table_hook: the text appended to the unit; the caller's collector
\* becomes [] (see GetTableSql)
PostTableHook(comments) == comments

\* (mutation of SkipM2M) the test against the declared tables left out
SkipM2MGeneratedOnly(f, models_tables) == f.generated

\* line 307: the many-to-many fields that get no join-table statement here
SkipM2M(f, models_tables) == f.generated \/ f.through \in models_tables

\* lines 310-358: the join-table block of one many-to-many field of entity i:
\* the M2M_TABLE_TEMPLATE statement, then the flushed collector, which holds
\* the join table's comment when the field has a description
M2MCreateString(m, i, f, s) ==
  LET e == m[i]
      through_table == <<e.schema, f.through>>
      st == Stmt("M2M_TABLE_TEMPLATE", through_table[1], through_table[2], s,
                 <<[column |-> "backward", to |-> i,
                    fk |-> IF f.db_constraint THEN TableNameSql(e) ELSE <<>>],
                   [column |-> "forward", to |-> f.related,
                    fk |-> IF f.db_constraint THEN TableNameSql(m[f.related]) ELSE <<>>]>>)
      collected == IF f.description
                   THEN TableCommentGenerator(<<>>, through_table) ELSE <<>>
  IN  <<st>> \o PostTableHook(collected)

RECURSIVE M2MTablesForCreate(_, _, _, _, _)
M2MTablesForCreate(m, i, fs, models_tables, s) ==
  IF fs = <<>> THEN <<>>
  ELSE IF SkipM2M(Head(fs), models_tables)
       THEN M2MTablesForCreate(m, i, Tail(fs), models_tables, s)
       ELSE <<M2MCreateString(m, i, Head(fs), s)>>
            \o M2MTablesForCreate(m, i, Tail(fs), models_tables, s)

\* _get_table_sql(model, safe) for the i-th entity of m, entered with the
\* collector holding `comments`.  raised: a KeyError from
\* model._meta.fields_map[field] in the unique_together / indexes loops,
\* which run after the column comments were collected and before the flush.
GetTableSql(m, i, comments, s) ==
  LET e == m[i]
      models_tables == {m[k].table : k \in DOMAIN m}
      qn == TableNameSql(e)
      afterColumns == IF e.column_description
                      THEN ColumnCommentGenerator(comments, qn, "name")
                      ELSE comments
      field_indexes_sqls == IF e.indexes = "ok" THEN <<GetIndexSql(e, s)>> ELSE <<>>
      afterTable == IF e.table_description
                    THEN TableCommentGenerator(afterColumns, qn)
                    ELSE afterColumns
      table_create_string ==
        <<Stmt("TABLE_CREATE_TEMPLATE", qn[1], qn[2], s, FieldsToCreate(m, i))>>
        \o field_indexes_sqls \o PostTableHook(afterTable)
  IN  IF e.indexes = "missing"
      THEN [raised |-> TRUE, comments_array |-> afterColumns, unit |-> <<>>]
      ELSE [raised |-> FALSE, comments_array |-> <<>>,
            unit |-> [table |-> e.table, schema |-> e.schema, model |-> i,
                      table_creation_string |-> table_create_string,
                      references |-> References(m, i),
                      m2m_tables |-> M2MTablesForCreate(m, i, e.m2m_fields,
                                                         models_tables, s)]]

RECURSIVE TablesToCreate(_, _, _, _, _, _)
\* lines 374-378: the assembly loop from entity i on
TablesToCreate(m, i, names, comments, s, acc) ==
  IF i > Len(m)
  THEN [raised |-> FALSE, schema_names |-> names, comments_array |-> comments,
        tables |-> acc]
  ELSE LET names1 == IF m[i].schema # NoSchema THEN names \cup {m[i].schema}
                     ELSE names
           r == GetTableSql(m, i, comments, s)
       IN  IF r.raised
           THEN [raised |-> TRUE, schema_names |-> names1,
                 comments_array |-> r.comments_array, tables |-> acc]
           ELSE TablesToCreate(m, i + 1, names1, r.comments_array, s,
                               Append(acc, r.unit))

\* lines 380-386: one SCHEMA_CREATION_TEMPLATE statement per member of
\* self.schema_names, in the set's iteration order, except the members for
\* which `schema_name is not "public"` is false.  same_object is the outcome
\* of that identity comparison for the member equal to "public".
CreateSchemasSql(names, order, s, same_object) ==
  LET kept == SelectSeq(order, LAMBDA n : n \in names /\ ~(n = "public" /\ same_object))
  IN  [k \in DOMAIN kept |-> Stmt("SCHEMA_CREATION_TEMPLATE", kept[k], "", s, <<>>)]

\* (mutation of Satisfiable) the union taken with the unit's own references
\* instead of its own table
SatisfiableOwnReferences(t, created) == t.references \subseteq (created \cup t.references)

\* line 400: t["references"].issubset(created_tables | {t["table"]})
Satisfiable(t, created) == t.references \subseteq (created \cup {t.table})

\* (mutation of NextTableForCreate) the last satisfiable unit instead of the
\* first
NextTableForCreateLast(tables, created) ==
  LET ok == {k \in DOMAIN tables : Satisfiable(tables[k], created)}
  IN  IF ok = {} THEN 0 ELSE CHOOSE k \in ok : \A j \in ok : k >= j

\* lines 397-401: the index in tables of next(t for t in tables if ...), or 0
\* when the generator is exhausted (StopIteration)
NextTableForCreate(tables, created) ==
  LET ok == {k \in DOMAIN tables : Satisfiable(tables[k], created)}
  IN  IF ok = {} THEN 0 ELSE CHOOSE k \in ok : \A j \in ok : k <= j

\* (mutation of SchemaCreationString) the join tables ahead of the tables
SchemaCreationStringJoinsFirst(schemas, ordered, m2m) ==
  schemas \o Flatten(m2m) \o Flatten(ordered)

\* lines 409-411
SchemaCreationString(schemas, ordered, m2m) ==
  schemas \o Flatten(ordered) \o Flatten(m2m)

\* line 404: list.remove drops the first element equal to t
RECURSIVE Remove(_, _)
Remove(tables, t) ==
  IF tables = <<>> THEN <<>>
  ELSE IF Head(tables) = t THEN Tail(tables)
       ELSE <<Head(tables)>> \o Remove(Tail(tables), t)

\* ------------------------------------------------------------ the models
\* What _get_models_to_create hands to a call: the declared entities, in
\* declaration order.  An entity lists, per declared entity j, whether it
\* holds a reference field to j and whether that reference keeps its
\* database constraint ("fk") or not ("logical").
RefKinds == {"none", "fk", "logical"}
IndexKinds == {"none", "ok", "missing"}

Entity(table, schema, refs, tdesc, cdesc, idx, m2m) ==
  [table |-> table, schema |-> schema, refs |-> refs,
   table_description |-> tdesc, column_description |-> cdesc,
   indexes |-> idx, m2m_fields |-> m2m]

NoRefs(n) == [j \in 1..n |-> "none"]
OneRef(n, j, kind) == [k \in 1..n |-> IF k = j THEN kind ELSE "none"]

\* the sets of at most MaxRefs reference fields among n entities, a field
\* being <<owner, target, kind>>, with one field per owner and target
RefFields(n) == (1..n) \X (1..n) \X {"fk", "logical"}

RefFieldSets(n) ==
  {S \in {{q[k] : k \in DOMAIN q} : q \in [1..MaxRefs -> RefFields(n)]} \cup {{}} :
     \A a, b \in S : (a[1] = b[1] /\ a[2] = b[2]) => a = b}

RefsOf(n, S, i) ==
  [j \in 1..n |-> IF <<i, j, "fk">> \in S THEN "fk"
                  ELSE IF <<i, j, "logical">> \in S THEN "logical" ELSE "none"]

\* reference graphs over plainly named entities of the default namespace
RefModels ==
  UNION {{[i \in 1..n |-> Entity(TableName[i], NoSchema, RefsOf(n, S, i),
                                 FALSE, FALSE, "none", <<>>)]
            : S \in RefFieldSets(n)}
         : n \in 0..MaxEntities}

\* entities spread over namespaces; a table name may repeat across
\* namespaces, never inside one
NamespaceModels ==
  {<<Entity(TableName[1], s, NoRefs(1), FALSE, FALSE, "none", <<>>)>>
     : s \in SchemaNames \cup {NoSchema}}
  \cup
  {<<Entity(TableName[1], c[1], OneRef(2, 2, c[4]), FALSE, FALSE, "none", <<>>),
     Entity(TableName[c[3]], c[2], NoRefs(2), FALSE, FALSE, "none", <<>>)>>
     : c \in {d \in (SchemaNames \cup {NoSchema}) \X (SchemaNames \cup {NoSchema})
                     \X (1..2) \X {"none", "fk"} :
                d[3] = 1 => d[1] # d[2]}}

\* entities with table and column descriptions and index declarations, some
\* of which name a column that does not exist
Decorations == BOOLEAN \X BOOLEAN \X IndexKinds

CommentModels ==
  {<<Entity(TableName[1], s, NoRefs(1), d[1], d[2], d[3], <<>>)>>
     : s \in {NoSchema, "sa"}, d \in Decorations}
  \cup
  {<<Entity(TableName[1], s, OneRef(2, 2, k), d[1], d[2], d[3], <<>>),
     Entity(TableName[2], NoSchema, NoRefs(2), e[1], e[2], e[3], <<>>)>>
     : s \in {NoSchema},
       k \in {"none", "fk"}, d \in Decorations, e \in Decorations}

\* one many-to-many relation from entity i to entity j; the related side
\* carries the generated reverse field; when the through name is the table
\* of a declared entity, that entity references both sides
M2MField(related, through, generated, description, db_constraint) ==
  [related |-> related, through |-> through, generated |-> generated,
   description |-> description, db_constraint |-> db_constraint]

JoinModel(n, s, i, j, through, desc, con) ==
  [k \in 1..n |->
     Entity(TableName[k], s,
            IF TableName[k] = through
            THEN [x \in 1..n |-> IF x \in {i, j} THEN "fk" ELSE "none"]
            ELSE NoRefs(n),
            FALSE, FALSE, "none",
            (IF k = i THEN <<M2MField(j, through, FALSE, desc, con)>> ELSE <<>>)
            \o (IF k = j THEN <<M2MField(i, through, TRUE, desc, con)>> ELSE <<>>))]

JoinModels ==
  UNION {{JoinModel(n, c[1], c[2], c[3], c[4], c[5], c[6])
            : c \in {d \in {NoSchema, "sa"} \X (1..n) \X (1..n)
                            \X ({FreeThrough} \cup {TableName[k] : k \in 1..n})
                            \X BOOLEAN \X BOOLEAN :
                       d[4] \notin {TableName[d[2]], TableName[d[3]]}}}
         : n \in 2..MaxEntities}

Models == RefModels \cup NamespaceModels \cup CommentModels \cup JoinModels

\* ------------------------------------------------------------- behaviour
NoPrev == [result |-> "none", script |-> <<>>]

\* The order in which iterating self.schema_names yields its members.  A set
\* of str iterates in an order fixed by the process's string hashing, not by
\* insertion; two mutually reverse orders give every pair of names both of
\* its relative orders.
HashOrders == {<<"public", "sa", "sb">>, <<"sb", "sa", "public">>}

NoField == [field_type |-> "", default |-> None, auto_now_add |-> FALSE, auto_now |-> FALSE]

\* __init__ (lines 47-50), in a process whose set iteration order is hash_order
Init ==
  /\ comments_array = <<>>
  /\ schema_names = {}
  /\ hash_order \in HashOrders
  /\ public_is_literal = TRUE
  /\ calls = 0
  /\ pc = "idle"
  /\ model = <<>>
  /\ safe = TRUE
  /\ create_schemas_sql = <<>>
  /\ tables_to_create = <<>>
  /\ tables_to_create_count = 0
  /\ created_tables = {}
  /\ ordered_tables_for_create = <<>>
  /\ m2m_tables_to_create = <<>>
  /\ result = "none"
  /\ script = <<>>
  /\ prev = NoPrev
  /\ failed = FALSE
  /\ field_object = NoField
  /\ default = EmptyString

NoLocals ==
  /\ create_schemas_sql' = <<>>
  /\ tables_to_create' = <<>>
  /\ tables_to_create_count' = 0
  /\ created_tables' = {}
  /\ ordered_tables_for_create' = <<>>
  /\ m2m_tables_to_create' = <<>>

\* get_create_schema_sql(safe = s) entered on model m, lines 371-392: the
\* assembly loop, which either raises out of the call or leaves the units
\* for the ordering loop
Begin(m, s, p) ==
  LET r == TablesToCreate(m, 1, schema_names, comments_array, s, <<>>)
  IN  /\ calls < MaxCalls
      /\ calls' = calls + 1
      /\ model' = m
      /\ safe' = s
      /\ prev' = p
      /\ schema_names' = r.schema_names
      /\ comments_array' = r.comments_array
      /\ script' = <<>>
      /\ UNCHANGED <<hash_order, field_object, default>>
      \* set.add keeps the object already in the set; whether a newly added
      \* "public" is the very object of the literal of line 385 depends on how
      \* the model's schema string was made
      /\ IF "public" \in r.schema_names \ schema_names
         THEN public_is_literal' \in BOOLEAN
         ELSE UNCHANGED public_is_literal
      /\ IF r.raised
         THEN /\ pc' = "done"
              /\ result' = "KeyError"
              /\ failed' = TRUE
              /\ NoLocals
         ELSE /\ pc' = "ordering"
              /\ result' = "none"
              /\ UNCHANGED failed
              /\ create_schemas_sql' =
                   CreateSchemasSql(r.schema_names, hash_order, s, public_is_literal')
              /\ tables_to_create' = r.tables
              /\ tables_to_create_count' = Len(r.tables)
              /\ created_tables' = {}
              /\ ordered_tables_for_create' = <<>>
              /\ m2m_tables_to_create' = <<>>

\* a call on whatever model is registered now
Call == pc = "idle" /\ \E m \in Models, s \in BOOLEAN : Begin(m, s, NoPrev)

\* the caller generates again from the unchanged model with the same flag
CallAgain == pc = "done" /\ Begin(model, safe, [result |-> result, script |-> script])

\* one iteration of the while loop that places a table, lines 393-407
PlaceNext ==
  /\ pc = "ordering"
  /\ Cardinality(created_tables) # tables_to_create_count
  /\ NextTableForCreate(tables_to_create, created_tables) # 0
  /\ LET next_table_for_create ==
           tables_to_create[NextTableForCreate(tables_to_create, created_tables)]
     IN  /\ tables_to_create' = Remove(tables_to_create, next_table_for_create)
         /\ created_tables' = created_tables \cup {next_table_for_create.table}
         /\ ordered_tables_for_create' =
              Append(ordered_tables_for_create,
                     next_table_for_create.table_creation_string)
         /\ m2m_tables_to_create' =
              m2m_tables_to_create \o next_table_for_create.m2m_tables
  /\ UNCHANGED <<comments_array, schema_names, hash_order, public_is_literal,
                 calls, pc, model, safe,
                 create_schemas_sql, tables_to_create_count, result, script, prev,
                 failed, field_object, default>>

\* the iteration in which next() is exhausted, lines 402-403
RaiseCyclic ==
  /\ pc = "ordering"
  /\ Cardinality(created_tables) # tables_to_create_count
  /\ NextTableForCreate(tables_to_create, created_tables) = 0
  /\ pc' = "done"
  /\ result' = "ConfigurationError"
  /\ script' = <<>>
  /\ failed' = TRUE
  /\ NoLocals
  /\ UNCHANGED <<comments_array, schema_names, hash_order, public_is_literal,
                 calls, model, safe, prev, field_object, default>>

\* the break of line 395 and the composition of lines 409-412
Return ==
  /\ pc = "ordering"
  /\ Cardinality(created_tables) = tables_to_create_count
  /\ pc' = "done"
  /\ result' = "ok"
  /\ script' = SchemaCreationString(create_schemas_sql, ordered_tables_for_create,
                                    m2m_tables_to_create)
  /\ NoLocals
  /\ UNCHANGED <<comments_array, schema_names, hash_order, public_is_literal,
                 calls, model, safe, prev,
                 failed, field_object, default>>

\* the caller drops the outcome of the finished call; the generator stays
Release ==
  /\ pc = "done"
  /\ pc' = "idle"
  /\ model' = <<>>
  /\ safe' = TRUE
  /\ result' = "none"
  /\ script' = <<>>
  /\ prev' = NoPrev
  /\ UNCHANGED <<comments_array, schema_names, hash_order, public_is_literal,
                 calls, failed,
                 create_schemas_sql, tables_to_create, tables_to_create_count,
                 created_tables, ordered_tables_for_create, m2m_tables_to_create,
                 field_object, default>>

Next == Call \/ CallAgain \/ PlaceNext \/ RaiseCyclic \/ Return \/ Release

Spec == Init /\ [][Next]_vars

\* ------------------------------------------- rendering one column's default
FieldTypes == {"IntField", "CharField", "BooleanField", "DatetimeField",
               "UUIDField", "TextField", "JSONField"}

\* what a field declares as its default: nothing, a function, a literal
Defaults == {None, Value("function", "generate_token"),
             Value("bool", "True"), Value("bool", "False"),
             Value("int", "0"), Value("str", "x")}

Field(type, d, auto_now_add, auto_now) ==
  [field_type |-> type, default |-> d, auto_now_add |-> auto_now_add, auto_now |-> auto_now]

\* auto_now_add and auto_now are attributes of DatetimeField; getattr reads
\* them as False on every other field
Fields ==
  {Field(type, d, FALSE, FALSE) : type \in FieldTypes, d \in Defaults}
  \cup {Field("DatetimeField", d, a, n) : d \in Defaults, a \in BOOLEAN, n \in BOOLEAN}

\* _get_table_sql has reached line 150 for some field of some model
ColumnInit ==
  /\ comments_array = <<>>
  /\ schema_names = {}
  /\ hash_order = <<"public", "sa", "sb">>
  /\ public_is_literal = TRUE
  /\ calls = 0
  /\ pc = "column"
  /\ model = <<>>
  /\ safe = TRUE
  /\ create_schemas_sql = <<>>
  /\ tables_to_create = <<>>
  /\ tables_to_create_count = 0
  /\ created_tables = {}
  /\ ordered_tables_for_create = <<>>
  /\ m2m_tables_to_create = <<>>
  /\ result = "none"
  /\ script = <<>>
  /\ prev = NoPrev
  /\ failed = FALSE
  /\ field_object \in Fields
  /\ default = field_object.default

\* lines 150-169
RenderDefault ==
  /\ pc = "column"
  /\ pc' = "rendered"
  /\ default' = ColumnDefault(field_object)
  /\ UNCHANGED <<comments_array, schema_names, hash_order, public_is_literal,
                 calls, model, safe, create_schemas_sql, tables_to_create,
                 tables_to_create_count, created_tables, ordered_tables_for_create,
                 m2m_tables_to_create, result, script, prev, failed, field_object>>

ColumnNext == RenderDefault

ColumnSpec == ColumnInit /\ [][ColumnNext]_vars

\* ------------------------------------------------ vocabulary of the claims
Failures == {"KeyError", "ConfigurationError"}

\* entity i holds a constrained reference to another entity j
Constrained(m, i, j) == i # j /\ m[i].refs[j] = "fk"

RECURSIVE ConstrainedPath(_, _, _, _)
\* a path of 1..k constrained references from i to j
ConstrainedPath(m, i, j, k) ==
  /\ k > 0
  /\ \/ Constrained(m, i, j)
     \/ \E x \in DOMAIN m : Constrained(m, i, x) /\ ConstrainedPath(m, x, j, k - 1)

\* the constrained-reference graph has a cycle through at least two tables
HasConstrainedCycle(m) == \E i \in DOMAIN m : ConstrainedPath(m, i, i, Len(m))

\* no index declaration names a column that does not exist
ColumnsExist(m) == \A i \in DOMAIN m : m[i].indexes # "missing"

DistinctTables(m) == \A i, j \in DOMAIN m : m[i].table = m[j].table => i = j

\* the positions in script sc of the creation statement of entity e's table
TablePos(sc, e) ==
  {p \in DOMAIN sc : /\ sc[p].template = "TABLE_CREATE_TEMPLATE"
                     /\ sc[p].schema = e.schema
                     /\ sc[p].table = e.table}

\* ------------------------------------------------------------------- C1
\* C1 (as claimed): whenever a call on a model whose constrained references
\* form no cycle has finished, it has returned a script, and in the script
\* every table's creation statement exists and comes after the creation
\* statements of the tables it holds a constrained reference to; stated for
\* models with distinct table names whose index declarations name existing
\* columns.
C1_AcyclicOrdering ==
  (/\ pc = "done"
   /\ ~HasConstrainedCycle(model)
   /\ DistinctTables(model)
   /\ ColumnsExist(model))
  => /\ result = "ok"
     /\ \A i \in DOMAIN model : TablePos(script, model[i]) # {}
     /\ \A i, j \in DOMAIN model :
          Constrained(model, i, j)
          => \A q \in TablePos(script, model[i]) :
               \E q0 \in TablePos(script, model[j]) : q0 < q

\* ------------------------------------------------------------------- C2
\* C2: a finished call on a model whose constrained references form a cycle
\* through at least two tables has returned no script; when every index
\* declaration names existing columns (so that assembly raises nothing) the
\* call has failed with the cyclic-reference ConfigurationError.
C2_CycleDetected ==
  (pc = "done" /\ HasConstrainedCycle(model))
  => /\ result \in Failures
     /\ script = <<>>
     /\ ColumnsExist(model) => result = "ConfigurationError"

\* two entities referencing each other were rejected
C2_Witness ==
  /\ pc = "done"
  /\ Len(model) = 2
  /\ model[1].refs[2] = "fk"
  /\ model[2].refs[1] = "fk"
  /\ result = "ConfigurationError"

\* ------------------------------------------------------------------- C3
\* C3 (as claimed): in every unit handed to the ordering loop, a reference
\* whose constraint is suppressed still has its column, without a
\* REFERENCES clause, and the unit's dependency set holds only tables the
\* entity references with a constraint.
C3_LogicalReferenceNoEdge ==
  pc = "ordering"
  => \A k \in DOMAIN tables_to_create :
       LET t == tables_to_create[k]
           e == model[t.model]
           body == t.table_creation_string[1].body
       IN  /\ \A j \in DOMAIN model :
                e.refs[j] = "logical"
                => \E c \in DOMAIN body : body[c].to = j /\ body[c].fk = <<>>
           /\ t.references \subseteq
                {model[j].table : j \in {x \in DOMAIN model : e.refs[x] = "fk"}}

\* ------------------------------------------------------------------- C4
\* C4: every step that stays in the ordering loop places the
\* earliest pending unit, in declaration order, whose dependency set lies
\* within the placed identities plus its own, removes exactly that unit from
\* pending and keeps the others in order; and the pending list starts out in
\* declaration order.
C4_Step ==
  LET ok == {k \in DOMAIN tables_to_create :
               tables_to_create[k].references
                 \subseteq (created_tables \cup {tables_to_create[k].table})}
  IN  /\ (pc = "ordering" /\ pc' = "ordering" /\ vars' # vars)
         => /\ ok # {}
            /\ LET k0 == CHOOSE k \in ok : \A j \in ok : k <= j
               IN  /\ ordered_tables_for_create' =
                        Append(ordered_tables_for_create,
                               tables_to_create[k0].table_creation_string)
                   /\ created_tables' = created_tables \cup {tables_to_create[k0].table}
                   /\ Len(tables_to_create') = Len(tables_to_create) - 1
                   /\ \A k \in DOMAIN tables_to_create' :
                        tables_to_create'[k] =
                          tables_to_create[IF k < k0 THEN k ELSE k + 1]
      /\ (pc # "ordering" /\ pc' = "ordering")
         => \A k \in DOMAIN tables_to_create' : tables_to_create'[k].model = k

C4_GreedyDeclarationOrder == [][C4_Step]_vars

\* the second declared entity has been placed while the first is pending
C4_Witness ==
  /\ pc = "ordering"
  /\ Len(ordered_tables_for_create) = 1
  /\ Len(tables_to_create) = 1
  /\ tables_to_create[1].model = 1

\* ------------------------------------------------------------------- C5
IsSchemaStmt(s) == s.template = "SCHEMA_CREATION_TEMPLATE"
IsTableStmt(s) == s.template = "TABLE_CREATE_TEMPLATE"
IsJoinStmt(s) == s.template = "M2M_TABLE_TEMPLATE"
IsCommentStmt(s) == s.template \in {"TABLE_COMMENT_TEMPLATE", "COLUMN_COMMENT_TEMPLATE"}

\* C5: the script a call returns starts with the namespace statements, has
\* the table statements in the order the ordering loop placed their units,
\* and ends with the join-table statements in the order their owning units
\* were placed: nothing but join-table statements and their comments follows
\* the first join-table statement, and the tables at both ends of a
\* many-to-many relation are created before its join table.
C5_Step ==
  (pc = "ordering" /\ pc' = "done" /\ result' = "ok")
  => LET sc == script'
         n == Len(create_schemas_sql)
         joins == SelectSeq(Flatten(m2m_tables_to_create), IsJoinStmt)
     IN  /\ Len(sc) >= n
         /\ \A p \in DOMAIN sc : IsSchemaStmt(sc[p]) <=> p <= n
         /\ \A p \in 1..n : sc[p] = create_schemas_sql[p]
         /\ SelectSeq(sc, IsTableStmt)
              = [k \in DOMAIN ordered_tables_for_create |->
                   ordered_tables_for_create[k][1]]
         /\ SelectSeq(sc, IsJoinStmt) = joins
         /\ \A p, q \in DOMAIN sc :
              (p < q /\ IsJoinStmt(sc[p]))
              => (IsJoinStmt(sc[q]) \/ sc[q].template = "TABLE_COMMENT_TEMPLATE")
         /\ \A p \in DOMAIN sc :
              IsJoinStmt(sc[p])
              => \A x \in {sc[p].body[1].to, sc[p].body[2].to} :
                   /\ TablePos(sc, model[x]) # {}
                   /\ \A q \in TablePos(sc, model[x]) : q < p
         /\ \A p, q \in DOMAIN sc :
              (p < q /\ IsJoinStmt(sc[p]) /\ IsJoinStmt(sc[q]))
              => \A a \in TablePos(sc, model[sc[p].body[1].to]),
                    b \in TablePos(sc, model[sc[q].body[1].to]) : a <= b

NamedSchemas(m) == {m[i].schema : i \in DOMAIN m} \ {NoSchema}

\* C6 (as claimed): in every returned script the namespaces that have a
\* creation statement are exactly the named namespaces of the entities of
\* the model of that call, each once, and a table in a named namespace comes
\* after that namespace's statement; stated for a generator none of whose
\* calls has failed or has met the namespace "public".
C6_NamespacesOfThisCall ==
  (pc = "done" /\ result = "ok" /\ ~failed /\ "public" \notin schema_names)
  => /\ {script[p].schema : p \in {x \in DOMAIN script : IsSchemaStmt(script[x])}}
          = NamedSchemas(model)
     /\ \A p, q \in DOMAIN script :
          (IsSchemaStmt(script[p]) /\ IsSchemaStmt(script[q])
             /\ script[p].schema = script[q].schema) => p = q
     /\ \A q \in DOMAIN script :
          (IsTableStmt(script[q]) /\ script[q].schema # NoSchema)
          => \E p \in 1..q : IsSchemaStmt(script[p]) /\ script[p].schema = script[q].schema

\* ------------------------------------------------------------------- C7
RECURSIVE FirstDiscovery(_, _)
\* the named namespaces of m from entity i on, in order of first appearance
FirstDiscovery(m, i) ==
  IF i > Len(m) THEN <<>>
  ELSE LET rest == FirstDiscovery(m, i + 1)
           s == m[i].schema
       IN  IF s = NoSchema THEN rest
           ELSE <<s>> \o SelectSeq(rest, LAMBDA x : x # s)

\* C7 (as claimed): a script returned for the same model and flag as the
\* preceding call equals the script that call returned, and the namespace
\* statements of a script returned by the first call on a generator follow
\* the first-discovery order of the model's namespaces; stated for a
\* generator that has not met the namespace "public".
C7_Deterministic ==
  (pc = "done" /\ result = "ok" /\ "public" \notin schema_names)
  => /\ prev.result = "ok" => script = prev.script
     /\ calls = 1
        => LET ss == SelectSeq(script, IsSchemaStmt)
           IN  [k \in DOMAIN ss |-> ss[k].schema] = FirstDiscovery(model, 1)

\* ------------------------------------------------------------------- C8
DeclaredTables(m) == {m[k].table : k \in DOMAIN m}

\* C8: a unit carries one join-table statement per many-to-many field of its
\* entity that is neither the generated reverse side nor routed through the
\* table of a declared entity, and none for the others; and a returned
\* script holds exactly one creation statement for the join table of every
\* many-to-many relation of the model.
C8_JoinTableOnce ==
  /\ pc = "ordering"
     => \A k \in DOMAIN tables_to_create :
          LET t == tables_to_create[k]
              fs == model[t.model].m2m_fields
              emitted == {x \in DOMAIN fs :
                            ~fs[x].generated /\ fs[x].through \notin DeclaredTables(model)}
          IN  /\ Len(t.m2m_tables) = Cardinality(emitted)
              /\ \A b \in DOMAIN t.m2m_tables :
                   \E x \in emitted : t.m2m_tables[b][1].table = fs[x].through
  /\ (pc = "done" /\ result = "ok")
     => \A i \in DOMAIN model : \A x \in DOMAIN model[i].m2m_fields :
          Cardinality({p \in DOMAIN script :
                         /\ IsTableStmt(script[p]) \/ IsJoinStmt(script[p])
                         /\ script[p].table = model[i].m2m_fields[x].through}) = 1

\* a script was returned for a model with a many-to-many relation through
\* the table of a declared entity
C8_Witness ==
  /\ pc = "done"
  /\ result = "ok"
  /\ \E i \in DOMAIN model : \E x \in DOMAIN model[i].m2m_fields :
       /\ ~model[i].m2m_fields[x].generated
       /\ model[i].m2m_fields[x].through \in DeclaredTables(model)

\* ------------------------------------------------------------------- C9
\* C9 (as claimed): in every returned script, each comment statement names
\* the table of the closest creation statement (table or join table) before
\* it.
C9_CommentIsolation ==
  (pc = "done" /\ result = "ok")
  => \A p \in DOMAIN script :
       IsCommentStmt(script[p])
       => \E q \in 1..p :
            /\ IsTableStmt(script[q]) \/ IsJoinStmt(script[q])
            /\ script[q].schema = script[p].schema
            /\ script[q].table = script[p].table
            /\ \A r \in (q + 1)..p : ~(IsTableStmt(script[r]) \/ IsJoinStmt(script[r]))

\* ------------------------------------------------------------------ C10
\* C10 (as claimed): when the first call on a generator has failed, no
\* script was returned and the generator's comment collector and namespace
\* set hold nothing.
C10_NoResidue ==
  (pc = "done" /\ result \in Failures /\ calls = 1)
  => /\ script = <<>>
     /\ comments_array = <<>>
     /\ schema_names = {}

\* ------------------------------------------------------------------ C11
IsCreationStmt(s) ==
  s.template \in {"SCHEMA_CREATION_TEMPLATE", "TABLE_CREATE_TEMPLATE",
                  "INDEX_CREATE_TEMPLATE", "M2M_TABLE_TEMPLATE"}

Unguarded(s) == [s EXCEPT !.exists = FALSE]
UnguardedBlock(b) == [k \in DOMAIN b |-> Unguarded(b[k])]
UnguardedUnit(t) ==
  [t EXCEPT !.table_creation_string = UnguardedBlock(@),
            !.m2m_tables = [k \in DOMAIN @ |-> UnguardedBlock(@[k])]]

\* C11: in a returned script every namespace, table, index and join-table
\* statement carries the IF NOT EXISTS guard exactly when safe is true; and
\* the namespace statements and units a call leaves for the ordering loop
\* are, guards aside, the ones it would have left for the other value of
\* safe, so the number and order of statements do not depend on the flag.
C11_Step ==
  /\ (pc' = "done" /\ result' = "ok")
     => \A p \in DOMAIN script' :
          IsCreationStmt(script'[p]) => (script'[p].exists <=> safe')
  /\ (pc # "ordering" /\ pc' = "ordering")
     => LET other == TablesToCreate(model', 1, schema_names, comments_array,
                                    ~safe', <<>>)
            schemas == CreateSchemasSql(other.schema_names, hash_order, ~safe',
                                        public_is_literal')
        IN  /\ ~other.raised
            /\ Len(other.tables) = Len(tables_to_create')
            /\ \A k \in DOMAIN other.tables :
                 UnguardedUnit(other.tables[k]) = UnguardedUnit(tables_to_create'[k])
            /\ UnguardedBlock(schemas) = UnguardedBlock(create_schemas_sql')

C11_IdempotentCreateToggle == [][C11_Step]_vars

\* a script returned with safe false that creates a namespace, a table and
\* an index
C11_Witness ==
  /\ pc = "done"
  /\ result = "ok"
  /\ ~safe
  /\ \E p, q, r \in DOMAIN script :
       /\ IsSchemaStmt(script[p])
       /\ IsTableStmt(script[q])
       /\ script[r].template = "INDEX_CREATE_TEMPLATE"

\* ------------------------------------------------------------------ C12
Inlinable(f) == f.field_type \notin NotInlined
Callable(f) == f.default.type = "function"
Literal(f) == f.default # None /\ ~Callable(f)

\* C12: a column's default clause is DEFAULT CURRENT_TIMESTAMP for an
\* auto-now-add field, absent for a field that is only auto-now, absent for
\* a callable default or a UUID/Text/JSON field, absent for a field with no
\* default and no marker, and DEFAULT <literal> for a literal default on an
\* inlinable type.
C12_DefaultClause ==
  pc = "rendered" =>
    LET f == field_object
    IN  /\ (f.auto_now_add /\ ~Callable(f) /\ Inlinable(f))
           => default = Clause(" DEFAULT", CURRENT_TIMESTAMP)
        /\ (f.auto_now /\ ~f.auto_now_add /\ f.default = None)
           => default = EmptyString
        /\ (Callable(f) \/ ~Inlinable(f)) => default = EmptyString
        /\ (f.default = None /\ ~f.auto_now /\ ~f.auto_now_add)
           => default = EmptyString
        /\ (Literal(f) /\ Inlinable(f) /\ ~f.auto_now_add)
           => /\ default.keyword = " DEFAULT"
              /\ default.expr.repr = f.default.repr

\* ------------------------------------------------------------------ C13
\* entity i holds a reference, constrained or not, to another entity j
Refers(m, i, j) == i # j /\ m[i].refs[j] # "none"

RECURSIVE ReferencePath(_, _, _, _)
\* a path of 1..k references from i to j
ReferencePath(m, i, j, k) ==
  /\ k > 0
  /\ \/ Refers(m, i, j)
     \/ \E x \in DOMAIN m : Refers(m, i, x) /\ ReferencePath(m, x, j, k - 1)

HasReferenceCycle(m) == \E i \in DOMAIN m : ReferencePath(m, i, i, Len(m))

\* the namespace an entity's table lives in; no schema is the default one
Namespace(e) == IF e.schema = NoSchema THEN "public" ELSE e.schema

UniqueWithinNamespace(m) ==
  \A i, j \in DOMAIN m :
    (m[i].table = m[j].table /\ Namespace(m[i]) = Namespace(m[j])) => i = j

\* C13: every iteration of the ordering loop that does not leave it places
\* one unit, so the loop terminates; and on a model of N entities whose
\* references form no cycle and whose table names are unique within each
\* namespace the loop ends with a script after exactly N placements, each
\* entity's table created exactly once, and never with the cyclic-reference
\* error, also when two entities of different namespaces share a table name.
C13_Step ==
  /\ (pc = "ordering" /\ pc' = "ordering" /\ vars' # vars)
     => Len(tables_to_create') = Len(tables_to_create) - 1
  /\ (/\ pc = "ordering"
      /\ pc' = "done"
      /\ ~HasReferenceCycle(model)
      /\ UniqueWithinNamespace(model))
     => /\ result' = "ok"
        /\ Len(ordered_tables_for_create) = Len(model)
        /\ \A i \in DOMAIN model : Cardinality(TablePos(script', model[i])) = 1

C13_OrderingTerminates == [][C13_Step]_vars
====
